---- MODULE Spec2Model ----
(***************************************************************************)
(* Model of pre-processing/dxf_to_stl_3dface.py and of the batch driver    *)
(* pre-processing/batch_dxf_to_stl.py.  dxf_to_stl_3dface walks            *)
(* the modelspace of a DXF document in three loops (direct 3DFACE          *)
(* entities, INSERT block references with their nested 3DFACE entities,    *)
(* POLYLINE polyface meshes) and accumulates one vertex list and one face  *)
(* list.  batch_convert hands the files of a directory to a pool of worker *)
(* processes and collects one ConversionResult per file.                   *)
(*                                                                         *)
(* Coordinates are integers in units of 0.0001, so the tolerance 0.001 of  *)
(* the duplicate test is 10 units.  Buffer positions are the 0-based list  *)
(* indices of the Python code; TLA+ sequences are 1-based, so position k   *)
(* of a Python list is element k+1 of the sequence that models it.         *)
(***************************************************************************)
EXTENDS Integers, Sequences, FiniteSets, TLC

VARIABLES
  doc,              \* the parsed document: doc.faces, doc.inserts, doc.blocks, doc.polylines
  pc,               \* position of the conversion in dxf_to_stl_3dface
  ent,              \* 1-based position of the next entity of the running loop
  sub,              \* 1-based position of the next nested face / sub-record of entity ent
  all_vertices,     \* the vertex list
  all_faces,        \* the face (triangle) list
  vertex_offset,    \* the running offset of the POLYLINE loop
  valid_3dface,
  invalid_3dface,
  valid_polyline,
  invalid_polyline,
  warned_3dface,    \* number of "Skipped malformed 3DFACE" lines printed
  warned_polyline,  \* number of "Skipped malformed POLYLINE" lines printed
  insert_matrix,    \* matrix44() of the INSERT whose block is being walked
  vertices,         \* the polyface mesh's local vertex list
  vertex_map,       \* the polyface mesh's map: record position -> local vertex index
  \* batch_dxf_to_stl.py: batch_convert
  found,            \* the DXF files of the input directory, as find_dxf_files lists them
  skip_existing,
  workers,
  bpc,              \* position of batch_convert
  dxf_files,        \* the files to process: positions in found
  args_list,        \* the tasks of the pool no worker has taken yet
  running,          \* per worker process: the file it converts, 0 when it has none
  completed,        \* results the workers returned, not yet yielded by imap_unordered
  results,
  returned,         \* the pair <<successful, failed>> batch_convert returns
  attempts          \* history: per file, the calls of convert_single_file made for it

convert_vars == <<doc, pc, ent, sub, all_vertices, all_faces, vertex_offset,
                  valid_3dface, invalid_3dface, valid_polyline, invalid_polyline,
                  warned_3dface, warned_polyline, insert_matrix, vertices, vertex_map>>

batch_vars == <<found, skip_existing, workers, bpc, dxf_files, args_list,
                running, completed, results, returned, attempts>>

vars == <<convert_vars, batch_vars>>

----------------------------------------------------------------------------
(* Values *)

\* 0.001 in units of 0.0001
Tolerance == 10

\* the messages of a kind that are printed before the rest is counted silently
WarnLimit == 5

\* an absent or None corner attribute
NoPt == <<>>

Abs(x) == IF x < 0 THEN -x ELSE x

\* the index set of a Python list: 0 .. len-1
Range(s) == 0 .. (Len(s) - 1)

\* element at Python position k
At(s, k) == s[k + 1]

----------------------------------------------------------------------------
(* The face logic shared by the 3DFACE loop and the block loop *)

\* for attr in vtx0..vtx3: if hasattr and pt is not None: vertices.append(pt)
RECURSIVE CollectFrom(_, _)
CollectFrom(vtx, k) ==
  IF k > Len(vtx) THEN <<>>
  ELSE IF vtx[k] # NoPt THEN <<vtx[k]>> \o CollectFrom(vtx, k + 1)
       ELSE CollectFrom(vtx, k + 1)

Collect(vtx) == CollectFrom(vtx, 1)

\* the test with the tolerance itself counted as close
IsCloseInclusive(v, uv) ==
  /\ Abs(v[1] - uv[1]) <= Tolerance
  /\ Abs(v[2] - uv[2]) <= Tolerance
  /\ Abs(v[3] - uv[3]) <= Tolerance

\* abs(v[0]-uv[0]) < 0.001 and abs(v[1]-uv[1]) < 0.001 and abs(v[2]-uv[2]) < 0.001
IsClose(v, uv) ==
  /\ Abs(v[1] - uv[1]) < Tolerance
  /\ Abs(v[2] - uv[2]) < Tolerance
  /\ Abs(v[3] - uv[3]) < Tolerance

\* the inner loop: is v a duplicate of a vertex accepted so far
IsDuplicate(v, unique_verts) ==
  \E j \in 1..Len(unique_verts) : IsClose(v, unique_verts[j])

\* the outer loop with every earlier corner, accepted or not, as a target
RECURSIVE UniqueAgainstAll(_, _, _)
UniqueAgainstAll(vs, k, unique_verts) ==
  IF k > Len(vs) THEN unique_verts
  ELSE IF IsDuplicate(vs[k], SubSeq(vs, 1, k - 1))
       THEN UniqueAgainstAll(vs, k + 1, unique_verts)
       ELSE UniqueAgainstAll(vs, k + 1, Append(unique_verts, vs[k]))

\* the outer loop, having accepted unique_verts, over vs[k..]
RECURSIVE UniqueFrom(_, _, _)
UniqueFrom(vs, k, unique_verts) ==
  IF k > Len(vs) THEN unique_verts
  ELSE IF IsDuplicate(vs[k], unique_verts)
       THEN UniqueFrom(vs, k + 1, unique_verts)
       ELSE UniqueFrom(vs, k + 1, Append(unique_verts, vs[k]))

UniqueVerts(vs) == UniqueFrom(vs, 1, <<>>)

\* a quad split into a strip instead of a fan
TrianglesStrip(start_idx, n) ==
  IF n = 3
  THEN << <<start_idx, start_idx + 1, start_idx + 2>> >>
  ELSE << <<start_idx, start_idx + 1, start_idx + 2>>,
          <<start_idx + 1, start_idx + 2, start_idx + 3>> >>

\* the triangles of n unique vertices placed at start_idx
Triangles(start_idx, n) ==
  IF n = 3
  THEN << <<start_idx, start_idx + 1, start_idx + 2>> >>
  ELSE << <<start_idx, start_idx + 1, start_idx + 2>>,
          <<start_idx, start_idx + 2, start_idx + 3>> >>

\* a variant that applies the scale of the placement and drops its translation
TransformWithoutMove(m, pt) ==
  << m.scale[1] * pt[1], m.scale[2] * pt[2], m.scale[3] * pt[3] >>

\* insert_matrix.transform(pt) for a placement of per-axis scale and translation
Transform(m, pt) ==
  << m.scale[1] * pt[1] + m.move[1],
     m.scale[2] * pt[2] + m.move[2],
     m.scale[3] * pt[3] + m.move[3] >>

IdentityMatrix == [scale |-> <<1, 1, 1>>, move |-> <<0, 0, 0>>]

TransformAll(m, vs) == [k \in 1..Len(vs) |-> Transform(m, vs[k])]

\* the body with the degenerate face (fewer than 3 unique corners) not counted
FaceBodyForgetsDegenerate(vs) ==
  IF Len(vs) >= 3
  THEN LET unique_verts == UniqueVerts(vs)
           start_idx == Len(all_vertices)
       IN IF Len(unique_verts) >= 3
          THEN /\ all_vertices' = all_vertices \o unique_verts
               /\ all_faces' = all_faces \o Triangles(start_idx, Len(unique_verts))
               /\ valid_3dface' = valid_3dface + 1
               /\ UNCHANGED invalid_3dface
          ELSE UNCHANGED <<all_vertices, all_faces, valid_3dface, invalid_3dface>>
  ELSE /\ invalid_3dface' = invalid_3dface + 1
       /\ UNCHANGED <<all_vertices, all_faces, valid_3dface>>

\* the body of the try block for one face whose collected corners are vs:
\* it changes the two lists and exactly one of the two counters
FaceBody(vs) ==
  IF Len(vs) >= 3
  THEN LET unique_verts == UniqueVerts(vs)
           start_idx == Len(all_vertices)
       IN IF Len(unique_verts) >= 3
          THEN /\ all_vertices' = all_vertices \o unique_verts
               /\ all_faces' = all_faces \o Triangles(start_idx, Len(unique_verts))
               /\ valid_3dface' = valid_3dface + 1
               /\ UNCHANGED invalid_3dface
          ELSE /\ invalid_3dface' = invalid_3dface + 1
               /\ UNCHANGED <<all_vertices, all_faces, valid_3dface>>
  ELSE /\ invalid_3dface' = invalid_3dface + 1
       /\ UNCHANGED <<all_vertices, all_faces, valid_3dface>>

----------------------------------------------------------------------------
(* The 3DFACE loop *)

DirectFace ==
  /\ pc = "faces"
  /\ ent <= Len(doc.faces)
  /\ LET entity == doc.faces[ent]
     IN IF entity.raises
        THEN \* except Exception: counted, and printed while the count is <= 5
             /\ invalid_3dface' = invalid_3dface + 1
             /\ warned_3dface' = IF invalid_3dface + 1 <= WarnLimit
                                 THEN warned_3dface + 1 ELSE warned_3dface
             /\ UNCHANGED <<all_vertices, all_faces, valid_3dface>>
        ELSE /\ FaceBody(Collect(entity.vtx))
             /\ UNCHANGED warned_3dface
  /\ ent' = ent + 1
  /\ UNCHANGED <<doc, pc, sub, vertex_offset, valid_polyline, invalid_polyline,
                 warned_polyline, insert_matrix, vertices, vertex_map>>
  /\ UNCHANGED batch_vars

\* a variant in which the POLYLINE loop follows the 3DFACE loop
FacesDoneToPolylines ==
  /\ pc = "faces"
  /\ ent > Len(doc.faces)
  /\ pc' = "polylines"
  /\ ent' = 1
  /\ UNCHANGED <<doc, sub, all_vertices, all_faces, vertex_offset,
                 valid_3dface, invalid_3dface, valid_polyline, invalid_polyline,
                 warned_3dface, warned_polyline, insert_matrix, vertices, vertex_map>>
  /\ UNCHANGED batch_vars

FacesDone ==
  /\ pc = "faces"
  /\ ent > Len(doc.faces)
  /\ pc' = "inserts"
  /\ ent' = 1
  /\ UNCHANGED <<doc, sub, all_vertices, all_faces, vertex_offset,
                 valid_3dface, invalid_3dface, valid_polyline, invalid_polyline,
                 warned_3dface, warned_polyline, insert_matrix, vertices, vertex_map>>
  /\ UNCHANGED batch_vars

----------------------------------------------------------------------------
(* The INSERT loop *)

\* a variant that counts an INSERT of an undefined block as an invalid face
InsertBeginCountsMissing ==
  /\ pc = "inserts"
  /\ ent <= Len(doc.inserts)
  /\ LET entity == doc.inserts[ent]
     IN \/ /\ entity.bad = "name"
           /\ pc' = "raised"
           /\ UNCHANGED <<ent, sub, insert_matrix, invalid_3dface>>
        \/ /\ entity.bad # "name"
           /\ entity.name \notin DOMAIN doc.blocks
           /\ ent' = ent + 1
           /\ invalid_3dface' = invalid_3dface + 1
           /\ UNCHANGED <<pc, sub, insert_matrix>>
        \/ /\ entity.bad = "matrix"
           /\ entity.name \in DOMAIN doc.blocks
           /\ pc' = "raised"
           /\ UNCHANGED <<ent, sub, insert_matrix, invalid_3dface>>
        \/ /\ entity.bad = "none"
           /\ entity.name \in DOMAIN doc.blocks
           /\ insert_matrix' = entity.matrix
           /\ pc' = "nested"
           /\ sub' = 1
           /\ UNCHANGED <<ent, invalid_3dface>>
  /\ UNCHANGED <<doc, all_vertices, all_faces, vertex_offset,
                 valid_3dface, valid_polyline, invalid_polyline,
                 warned_3dface, warned_polyline, vertices, vertex_map>>
  /\ UNCHANGED batch_vars

\* entity.dxf.name, doc.blocks.get, entity.matrix44(): none of them inside a try
InsertBegin ==
  /\ pc = "inserts"
  /\ ent <= Len(doc.inserts)
  /\ LET entity == doc.inserts[ent]
     IN \/ /\ entity.bad = "name"
           /\ pc' = "raised"
           /\ UNCHANGED <<ent, sub, insert_matrix>>
        \/ /\ entity.bad # "name"
           /\ entity.name \notin DOMAIN doc.blocks
           /\ ent' = ent + 1
           /\ UNCHANGED <<pc, sub, insert_matrix>>
        \/ /\ entity.bad = "matrix"
           /\ entity.name \in DOMAIN doc.blocks
           /\ pc' = "raised"
           /\ UNCHANGED <<ent, sub, insert_matrix>>
        \/ /\ entity.bad = "none"
           /\ entity.name \in DOMAIN doc.blocks
           /\ insert_matrix' = entity.matrix
           /\ pc' = "nested"
           /\ sub' = 1
           /\ UNCHANGED ent
  /\ UNCHANGED <<doc, all_vertices, all_faces, vertex_offset,
                 valid_3dface, invalid_3dface, valid_polyline, invalid_polyline,
                 warned_3dface, warned_polyline, vertices, vertex_map>>
  /\ UNCHANGED batch_vars

CurrentBlock == doc.blocks[doc.inserts[ent].name]

\* a variant whose except branch does not count the face
NestedFaceUncounted ==
  /\ pc = "nested"
  /\ sub <= Len(CurrentBlock)
  /\ LET block_entity == CurrentBlock[sub]
     IN IF block_entity.raises
        THEN UNCHANGED <<all_vertices, all_faces, valid_3dface, invalid_3dface>>
        ELSE FaceBody(TransformAll(insert_matrix, Collect(block_entity.vtx)))
  /\ sub' = sub + 1
  /\ UNCHANGED <<doc, pc, ent, vertex_offset, valid_polyline, invalid_polyline,
                 warned_3dface, warned_polyline, insert_matrix, vertices, vertex_map>>
  /\ UNCHANGED batch_vars

NestedFace ==
  /\ pc = "nested"
  /\ sub <= Len(CurrentBlock)
  /\ LET block_entity == CurrentBlock[sub]
     IN IF block_entity.raises
        THEN \* except Exception: counted, never printed
             /\ invalid_3dface' = invalid_3dface + 1
             /\ UNCHANGED <<all_vertices, all_faces, valid_3dface>>
        ELSE FaceBody(TransformAll(insert_matrix, Collect(block_entity.vtx)))
  /\ sub' = sub + 1
  /\ UNCHANGED <<doc, pc, ent, vertex_offset, valid_polyline, invalid_polyline,
                 warned_3dface, warned_polyline, insert_matrix, vertices, vertex_map>>
  /\ UNCHANGED batch_vars

InsertEnd ==
  /\ pc = "nested"
  /\ sub > Len(CurrentBlock)
  /\ pc' = "inserts"
  /\ ent' = ent + 1
  /\ sub' = 0
  /\ UNCHANGED <<doc, all_vertices, all_faces, vertex_offset,
                 valid_3dface, invalid_3dface, valid_polyline, invalid_polyline,
                 warned_3dface, warned_polyline, insert_matrix, vertices, vertex_map>>
  /\ UNCHANGED batch_vars

InsertsDone ==
  /\ pc = "inserts"
  /\ ent > Len(doc.inserts)
  /\ pc' = "polylines"
  /\ ent' = 1
  /\ UNCHANGED <<doc, sub, all_vertices, all_faces, vertex_offset,
                 valid_3dface, invalid_3dface, valid_polyline, invalid_polyline,
                 warned_3dface, warned_polyline, insert_matrix, vertices, vertex_map>>
  /\ UNCHANGED batch_vars

----------------------------------------------------------------------------
(* The POLYLINE loop *)

EmptyMap == [k \in {} |-> 0]

\* hasattr(vertex.dxf, 'location') and hasattr(vertex.dxf, 'vtx0'); reading the
\* location of a "bad_loc" record, or the indices of a "bad_idx" record, raises
HasLocation(vertex) == vertex.kind \in {"coord", "both"}
HasIndices(vertex) == vertex.kind \in {"face", "both"}

\* for i, vertex in enumerate(vertex_list): records with a location are
\* appended to vertices, and vertex_map[i] is their position in vertices
RECURSIVE CollectVertices(_, _, _, _)
CollectVertices(vertex_list, i, vs, vmap) ==
  IF i >= Len(vertex_list) THEN [vertices |-> vs, vertex_map |-> vmap]
  ELSE IF HasLocation(At(vertex_list, i))
       THEN CollectVertices(vertex_list, i + 1,
                            Append(vs, At(vertex_list, i).loc),
                            vmap @@ (i :> Len(vs)))
       ELSE CollectVertices(vertex_list, i + 1, vs, vmap)

\* a record whose location cannot be read raises inside the first loop
RaisesInCollect(vertex_list) ==
  \E k \in 1..Len(vertex_list) : vertex_list[k].kind = "bad_loc"

\* the resolution without abs(): a negative index is never a key
RECURSIVE FaceIndicesSigned(_, _, _, _)
FaceIndicesSigned(idx, k, vmap, offset) ==
  IF k > Len(idx) THEN <<>>
  ELSE LET actual_idx == idx[k] - 1
       IN IF idx[k] # 0 /\ actual_idx \in DOMAIN vmap
          THEN <<vmap[actual_idx] + offset>> \o FaceIndicesSigned(idx, k + 1, vmap, offset)
          ELSE FaceIndicesSigned(idx, k + 1, vmap, offset)

\* for attr in vtx0..vtx3: non-zero indices that are keys of vertex_map
RECURSIVE FaceIndicesFrom(_, _, _, _)
FaceIndicesFrom(idx, k, vmap, offset) ==
  IF k > Len(idx) THEN <<>>
  ELSE LET actual_idx == Abs(idx[k]) - 1
       IN IF idx[k] # 0 /\ actual_idx \in DOMAIN vmap
          THEN <<vmap[actual_idx] + offset>> \o FaceIndicesFrom(idx, k + 1, vmap, offset)
          ELSE FaceIndicesFrom(idx, k + 1, vmap, offset)

FaceIndices(idx, vmap, offset) == FaceIndicesFrom(idx, 1, vmap, offset)

\* if len(face_indices) >= 3: 3 -> one triangle, 4 -> two triangles
PolyTriangles(face_indices) ==
  IF Len(face_indices) = 3 THEN << face_indices >>
  ELSE IF Len(face_indices) = 4
       THEN << <<face_indices[1], face_indices[2], face_indices[3]>>,
               <<face_indices[1], face_indices[3], face_indices[4]>> >>
       ELSE <<>>

\* except Exception of the POLYLINE loop: counted, printed while the count is <= 5
PolyExcept ==
  /\ invalid_polyline' = invalid_polyline + 1
  /\ warned_polyline' = IF invalid_polyline + 1 <= WarnLimit
                        THEN warned_polyline + 1 ELSE warned_polyline

\* entity.is_poly_face_mesh (outside the try), then the try block up to the
\* end of the first loop over the sub-records
PolyBegin ==
  /\ pc = "polylines"
  /\ ent <= Len(doc.polylines)
  /\ LET entity == doc.polylines[ent]
         got == CollectVertices(entity.records, 0, <<>>, EmptyMap)
     IN \/ /\ entity.flag = "raise"
           /\ pc' = "raised"
           /\ UNCHANGED <<ent, sub, valid_polyline, invalid_polyline,
                          warned_polyline, vertices, vertex_map>>
        \/ /\ entity.flag = "other"
           /\ ent' = ent + 1
           /\ UNCHANGED <<pc, sub, valid_polyline, invalid_polyline,
                          warned_polyline, vertices, vertex_map>>
        \/ /\ entity.flag = "polyface"
           /\ RaisesInCollect(entity.records)
           /\ valid_polyline' = valid_polyline + 1
           /\ PolyExcept
           /\ ent' = ent + 1
           /\ UNCHANGED <<pc, sub, vertices, vertex_map>>
        \/ /\ entity.flag = "polyface"
           /\ ~RaisesInCollect(entity.records)
           /\ valid_polyline' = valid_polyline + 1
           /\ vertices' = got.vertices
           /\ vertex_map' = got.vertex_map
           /\ pc' = "poly_faces"
           /\ sub' = 1
           /\ UNCHANGED <<ent, invalid_polyline, warned_polyline>>
  /\ UNCHANGED <<doc, all_vertices, all_faces, vertex_offset,
                 valid_3dface, invalid_3dface, warned_3dface, insert_matrix>>
  /\ UNCHANGED batch_vars

\* one iteration of the second loop over the sub-records
PolyFace ==
  /\ pc = "poly_faces"
  /\ sub <= Len(doc.polylines[ent].records)
  /\ LET vertex == doc.polylines[ent].records[sub]
     IN \/ /\ vertex.kind = "bad_idx"
           /\ PolyExcept
           /\ pc' = "polylines"
           /\ ent' = ent + 1
           /\ sub' = 0
           /\ vertices' = <<>>
           /\ vertex_map' = EmptyMap
           /\ UNCHANGED all_faces
        \/ /\ vertex.kind # "bad_idx"
           /\ all_faces' =
                IF HasIndices(vertex)
                THEN all_faces \o PolyTriangles(FaceIndices(vertex.idx, vertex_map, vertex_offset))
                ELSE all_faces
           /\ sub' = sub + 1
           /\ UNCHANGED <<pc, ent, invalid_polyline, warned_polyline, vertices, vertex_map>>
  /\ UNCHANGED <<doc, all_vertices, vertex_offset, valid_3dface, invalid_3dface,
                 valid_polyline, warned_3dface, insert_matrix>>
  /\ UNCHANGED batch_vars

\* a variant that advances the offset by the number of sub-records
PolyFinishCountsRecords ==
  /\ pc = "poly_faces"
  /\ sub > Len(doc.polylines[ent].records)
  /\ all_vertices' = all_vertices \o vertices
  /\ vertex_offset' = vertex_offset + Len(doc.polylines[ent].records)
  /\ pc' = "polylines"
  /\ ent' = ent + 1
  /\ sub' = 0
  /\ vertices' = <<>>
  /\ vertex_map' = EmptyMap
  /\ UNCHANGED <<doc, all_faces, valid_3dface, invalid_3dface, valid_polyline,
                 invalid_polyline, warned_3dface, warned_polyline, insert_matrix>>
  /\ UNCHANGED batch_vars

\* all_vertices.extend(vertices); vertex_offset += len(vertices)
PolyFinish ==
  /\ pc = "poly_faces"
  /\ sub > Len(doc.polylines[ent].records)
  /\ all_vertices' = all_vertices \o vertices
  /\ vertex_offset' = vertex_offset + Len(vertices)
  /\ pc' = "polylines"
  /\ ent' = ent + 1
  /\ sub' = 0
  /\ vertices' = <<>>
  /\ vertex_map' = EmptyMap
  /\ UNCHANGED <<doc, all_faces, valid_3dface, invalid_3dface, valid_polyline,
                 invalid_polyline, warned_3dface, warned_polyline, insert_matrix>>
  /\ UNCHANGED batch_vars

----------------------------------------------------------------------------
(* After the three loops *)

\* a variant whose empty check asks for both lists to be empty
FinishWhenBothEmpty ==
  /\ pc = "polylines"
  /\ ent > Len(doc.polylines)
  /\ \/ /\ (Len(all_vertices) = 0 /\ Len(all_faces) = 0)
        /\ pc' = "empty_error"
     \/ /\ ~(Len(all_vertices) = 0 /\ Len(all_faces) = 0)
        /\ pc' = "exported"
  /\ UNCHANGED <<doc, ent, sub, all_vertices, all_faces, vertex_offset,
                 valid_3dface, invalid_3dface, valid_polyline, invalid_polyline,
                 warned_3dface, warned_polyline, insert_matrix, vertices, vertex_map>>
  /\ UNCHANGED batch_vars

\* the empty check, then the hand-over of the two lists to the mesh exporter
Finish ==
  /\ pc = "polylines"
  /\ ent > Len(doc.polylines)
  /\ \/ /\ (Len(all_vertices) = 0 \/ Len(all_faces) = 0)
        /\ pc' = "empty_error"
     \/ /\ ~(Len(all_vertices) = 0 \/ Len(all_faces) = 0)
        /\ pc' = "exported"
  /\ UNCHANGED <<doc, ent, sub, all_vertices, all_faces, vertex_offset,
                 valid_3dface, invalid_3dface, valid_polyline, invalid_polyline,
                 warned_3dface, warned_polyline, insert_matrix, vertices, vertex_map>>
  /\ UNCHANGED batch_vars

Next ==
  \/ DirectFace
  \/ FacesDone
  \/ InsertBegin
  \/ NestedFace
  \/ InsertEnd
  \/ InsertsDone
  \/ PolyBegin
  \/ PolyFace
  \/ PolyFinish
  \/ Finish

\* the state at the top of the 3DFACE loop for document d
\* the batch driver is not running
BatchIdle ==
  /\ found = <<>>
  /\ skip_existing = FALSE
  /\ workers = 1
  /\ bpc = "idle"
  /\ dxf_files = <<>>
  /\ args_list = <<>>
  /\ running = <<0>>
  /\ completed = <<>>
  /\ results = <<>>
  /\ returned = <<<<>>, <<>>>>
  /\ attempts = <<>>

Start(d) ==
  /\ BatchIdle
  /\ doc = d
  /\ pc = "faces"
  /\ ent = 1
  /\ sub = 0
  /\ all_vertices = <<>>
  /\ all_faces = <<>>
  /\ vertex_offset = 0
  /\ valid_3dface = 0
  /\ invalid_3dface = 0
  /\ valid_polyline = 0
  /\ invalid_polyline = 0
  /\ warned_3dface = 0
  /\ warned_polyline = 0
  /\ insert_matrix = IdentityMatrix
  /\ vertices = <<>>
  /\ vertex_map = EmptyMap

----------------------------------------------------------------------------
(* batch_dxf_to_stl.py *)

\* bounds of the batch runs
MaxFiles == 3
MaxWorkers == 2

\* a DXF file of the directory: whether its conversion raises, and whether
\* its STL output exists already
DxfFile(raises, has_stl) == [raises |-> raises, has_stl |-> has_stl]

ConversionResult(input_file, success) ==
  [input_file |-> input_file, success |-> success]

should_skip_file(f) == found[f].has_stl

\* [f for f in s if keep(f)] for s a list of positions in found
RECURSIVE FilesToProcess(_, _)
FilesToProcess(s, skip) ==
  IF s = <<>> THEN <<>>
  ELSE (IF skip /\ should_skip_file(Head(s)) THEN <<>> ELSE <<Head(s)>>)
       \o FilesToProcess(Tail(s), skip)

\* [r for r in rs if r.success = flag]
RECURSIVE WithSuccess(_, _)
WithSuccess(rs, flag) ==
  IF rs = <<>> THEN <<>>
  ELSE (IF Head(rs).success = flag THEN <<Head(rs)>> ELSE <<>>)
       \o WithSuccess(Tail(rs), flag)

\* find the files, filter them, create the pool and submit the tasks
BatchBegin ==
  /\ bpc = "start"
  /\ LET listed == [k \in 1..Len(found) |-> k]
         files_to_process == FilesToProcess(listed, skip_existing)
     IN \/ /\ listed = <<>>
           /\ returned' = <<<<>>, <<>>>>
           /\ bpc' = "done"
           /\ UNCHANGED <<dxf_files, args_list>>
        \/ /\ listed # <<>>
           /\ files_to_process = <<>>
           /\ returned' = <<<<>>, <<>>>>
           /\ bpc' = "done"
           /\ UNCHANGED <<dxf_files, args_list>>
        \/ /\ files_to_process # <<>>
           /\ dxf_files' = files_to_process
           /\ args_list' = files_to_process
           /\ bpc' = "pool"
           /\ UNCHANGED returned
  /\ UNCHANGED <<found, skip_existing, workers, running, completed, results, attempts>>
  /\ UNCHANGED convert_vars

\* a worker process without a task takes the next task of the pool
WorkerTake(w) ==
  /\ bpc = "pool"
  /\ running[w] = 0
  /\ args_list # <<>>
  /\ running' = [running EXCEPT ![w] = Head(args_list)]
  /\ args_list' = Tail(args_list)
  /\ attempts' = [attempts EXCEPT ![Head(args_list)] = @ + 1]
  /\ UNCHANGED <<found, skip_existing, workers, bpc, dxf_files, completed, results, returned>>
  /\ UNCHANGED convert_vars

\* a variant of convert_single_file without the except branch: the
\* exception of the conversion reaches the loop of batch_convert and ends it
WorkerFinishUncaught(w) ==
  /\ bpc = "pool"
  /\ running[w] # 0
  /\ LET dxf_file == running[w]
     IN \/ /\ ~found[dxf_file].raises
           /\ completed' = Append(completed, ConversionResult(dxf_file, TRUE))
           /\ UNCHANGED bpc
        \/ /\ found[dxf_file].raises
           /\ bpc' = "raised"
           /\ UNCHANGED completed
  /\ running' = [running EXCEPT ![w] = 0]
  /\ UNCHANGED <<found, skip_existing, workers, dxf_files, args_list, results, returned, attempts>>
  /\ UNCHANGED convert_vars

\* convert_single_file ends in the worker: the conversion returned, or it
\* raised and the except branch made the failed result
WorkerFinish(w) ==
  /\ bpc = "pool"
  /\ running[w] # 0
  /\ LET dxf_file == running[w]
     IN \/ /\ ~found[dxf_file].raises
           /\ completed' = Append(completed, ConversionResult(dxf_file, TRUE))
        \/ /\ found[dxf_file].raises
           /\ completed' = Append(completed, ConversionResult(dxf_file, FALSE))
  /\ running' = [running EXCEPT ![w] = 0]
  /\ UNCHANGED <<found, skip_existing, workers, bpc, dxf_files, args_list, results, returned, attempts>>
  /\ UNCHANGED convert_vars

\* the loop over imap_unordered receives the next completed result
ReceiveResult ==
  /\ bpc = "pool"
  /\ completed # <<>>
  /\ results' = Append(results, Head(completed))
  /\ completed' = Tail(completed)
  /\ UNCHANGED <<found, skip_existing, workers, bpc, dxf_files, args_list, running, returned, attempts>>
  /\ UNCHANGED convert_vars

\* every task has yielded its result: the loop ends, the results are split
BatchReturn ==
  /\ bpc = "pool"
  /\ Len(results) = Len(dxf_files)
  /\ returned' = <<WithSuccess(results, TRUE), WithSuccess(results, FALSE)>>
  /\ bpc' = "done"
  /\ UNCHANGED <<found, skip_existing, workers, dxf_files, args_list, running, completed, results, attempts>>
  /\ UNCHANGED convert_vars

NextBatch ==
  \/ BatchBegin
  \/ \E w \in 1..workers : WorkerTake(w)
  \/ \E w \in 1..workers : WorkerFinish(w)
  \/ ReceiveResult
  \/ BatchReturn

\* no conversion runs in the process of batch_convert
ConvertIdle ==
  /\ doc = [faces |-> <<>>, inserts |-> <<>>, blocks |-> <<>>, polylines |-> <<>>]
  /\ pc = "idle"
  /\ ent = 0
  /\ sub = 0
  /\ all_vertices = <<>>
  /\ all_faces = <<>>
  /\ vertex_offset = 0
  /\ valid_3dface = 0
  /\ invalid_3dface = 0
  /\ valid_polyline = 0
  /\ invalid_polyline = 0
  /\ warned_3dface = 0
  /\ warned_polyline = 0
  /\ insert_matrix = IdentityMatrix
  /\ vertices = <<>>
  /\ vertex_map = EmptyMap

\* batch_convert is called on a directory of up to MaxFiles files
InitBatch ==
  /\ ConvertIdle
  /\ \E n \in 0..MaxFiles :
       found \in [1..n -> {DxfFile(r, h) : r \in BOOLEAN, h \in BOOLEAN}]
  /\ skip_existing \in BOOLEAN
  /\ workers \in 1..MaxWorkers
  /\ bpc = "start"
  /\ dxf_files = <<>>
  /\ args_list = <<>>
  /\ running = [w \in 1..workers |-> 0]
  /\ completed = <<>>
  /\ results = <<>>
  /\ returned = <<<<>>, <<>>>>
  /\ attempts = [f \in 1..Len(found) |-> 0]

SpecBatch == InitBatch /\ [][NextBatch]_vars

----------------------------------------------------------------------------
(* Documents *)

\* bounds of the mixed documents
MaxFaces == 2
MaxInserts == 1
MaxPolylines == 2
\* bound of the sub-record lists of the interleaved polyface meshes
MaxRecords == 4
\* bound of the face indices of a polyface record: -MaxIndex .. MaxIndex
MaxIndex == 5
\* bound of the documents of raising and degenerate faces
MaxWarnFaces == 6

SeqUpTo(S, n) == UNION {[1..k -> S] : k \in 0..n}

Face(vtx) == [raises |-> FALSE, vtx |-> vtx]
RaisingFace == [raises |-> TRUE, vtx |-> <<NoPt, NoPt, NoPt, NoPt>>]

Insert(name, bad, matrix) == [name |-> name, bad |-> bad, matrix |-> matrix]

Coord(loc) == [kind |-> "coord", loc |-> loc, idx |-> <<0, 0, 0, 0>>]
FaceRecord(idx) == [kind |-> "face", loc |-> <<0, 0, 0>>, idx |-> idx]
Both(loc, idx) == [kind |-> "both", loc |-> loc, idx |-> idx]
BadLoc == [kind |-> "bad_loc", loc |-> <<0, 0, 0>>, idx |-> <<0, 0, 0, 0>>]
BadIdx == [kind |-> "bad_idx", loc |-> <<0, 0, 0>>, idx |-> <<0, 0, 0, 0>>]

Polyline(flag, records) == [flag |-> flag, records |-> records]

Document(faces, inserts, block, polylines) ==
  [faces |-> faces, inserts |-> inserts, blocks |-> ("B" :> block), polylines |-> polylines]

\* corner points: P0n lies within the tolerance of P0 on every axis
P0 == <<0, 0, 0>>
P0n == <<9, 9, 9>>
P1 == <<10000, 0, 0>>
P2 == <<0, 10000, 0>>
P3 == <<0, 0, 10000>>
FacePts == {P0, P0n, P1, P2, P3}

Move(dx, dy, dz) == [scale |-> <<1, 1, 1>>, move |-> <<dx, dy, dz>>]
Placement == Move(1000000, 2000000, 0)
Stretch == [scale |-> <<2, 1, 1>>, move |-> <<0, 0, 0>>]

Tri == Face(<<P0, P1, P2, NoPt>>)
Quad == Face(<<P0, P1, P2, P3>>)
Degenerate == Face(<<P0, P0n, P1, NoPt>>)

\* mixed documents: a few kinds of every entity, in every combination
MixedFaces == {RaisingFace, Tri, Quad}
MixedInserts ==
  {Insert("B", "none", Placement), Insert("missing", "none", Placement),
   Insert("B", "name", Placement), Insert("B", "matrix", Placement)}
MixedBlock == <<Quad, RaisingFace, Degenerate>>
MixedPolylines ==
  {Polyline("other", <<>>),
   Polyline("raise", <<>>),
   Polyline("polyface", <<Coord(P0), Coord(P1), Coord(P2), FaceRecord(<<1, 2, 3, 0>>)>>),
   Polyline("polyface", <<Coord(P0), Coord(P1), Coord(P2), FaceRecord(<<1, 2, 3, 0>>), BadIdx>>),
   Polyline("polyface", <<Coord(P0), BadLoc>>)}

FromMixed(nf, ni, np) ==
  \E f \in SeqUpTo(MixedFaces, nf), i \in SeqUpTo(MixedInserts, ni),
     p \in SeqUpTo(MixedPolylines, np) :
       Start(Document(f, i, MixedBlock, p))

\* one face, every corner slot a point or absent
SlotFaces == {Face(v) : v \in [1..4 -> FacePts \cup {NoPt}]} \cup {RaisingFace}

\* documents of one direct face
FromOneFace == \E f \in SlotFaces : Start(Document(<<f>>, <<>>, <<>>, <<>>))

\* documents of one block reference whose block holds one face
FromOneNested ==
  \E f \in SlotFaces, m \in {IdentityMatrix, Placement, Stretch} :
     Start(Document(<<>>, <<Insert("B", "none", m)>>, <<f>>, <<>>))

\* the translations of the twin documents
TwinMoves == {<<0, 0, 0>>, <<1000000, 2000000, 0>>, <<0 - 5, 3, 7>>}

\* the face f with every present corner moved by d
Shifted(f, d) ==
  IF f.raises THEN f
  ELSE Face([k \in 1..4 |->
               IF f.vtx[k] = NoPt THEN NoPt
               ELSE <<f.vtx[k][1] + d[1], f.vtx[k][2] + d[2], f.vtx[k][3] + d[3]>>])

\* twin documents: a block of one face placed by a pure translation, after
\* the direct face whose corners are that face's corners moved by the same
\* translation
FromTwin ==
  \E f \in SlotFaces, d \in TwinMoves :
     Start(Document(<<Shifted(f, d)>>,
                    <<Insert("B", "none", Move(d[1], d[2], d[3]))>>, <<f>>, <<>>))

\* the block of one triangle placed at (100, 200, 0)
FromPlacedTriangle ==
  Start(Document(<<>>, <<Insert("B", "none", Placement)>>, <<Tri>>, <<>>))

\* corner points around the tolerance: the grid
\* {0, Tolerance-1, Tolerance, Tolerance+1}^3
Grid == {0, Tolerance - 1, Tolerance, Tolerance + 1}
GridPts == Grid \X Grid \X Grid
\* the grid points on an axis or on the diagonal
AxisPts ==
  {p \in GridPts : \/ p[1] = p[2] /\ p[2] = p[3]
                   \/ Cardinality({k \in 1..3 : p[k] # 0}) <= 1}
\* two points far from the grid and from each other
Far1 == <<10000, 0, 0>>
Far2 == <<0, 10000, 0>>

\* documents of one direct face: four corners on the axes, or any two grid
\* points followed by two far points
FromDedup ==
  \/ \E v \in [1..4 -> AxisPts] : Start(Document(<<Face(v)>>, <<>>, <<>>, <<>>))
  \/ \E a \in GridPts, b \in GridPts :
       Start(Document(<<Face(<<a, b, Far1, Far2>>)>>, <<>>, <<>>, <<>>))

\* documents of one polyface mesh: a table of four vertices and one face
\* record of any four indices
IndexVals == (0 - MaxIndex) .. MaxIndex
FromTable ==
  \E idx \in [1..4 -> IndexVals] :
     Start(Document(<<>>, <<>>, <<>>,
                    <<Polyline("polyface",
                               <<Coord(P0), Coord(P1), Coord(P2), Coord(P3),
                                 FaceRecord(idx)>>)>>))

\* documents of one polyface mesh whose sub-records come in any order
Records ==
  {Coord(P0), Coord(P1), FaceRecord(<<1, 2, 3, 0>>), FaceRecord(<<1, 2, 3, 4>>),
   FaceRecord(<<1, 1, 2, 0>>), Both(P2, <<1, 2, 3, 0>>), BadLoc, BadIdx}
FromInterleaved ==
  \E r \in SeqUpTo(Records, MaxRecords) :
     Start(Document(<<>>, <<>>, <<>>, <<Polyline("polyface", r)>>))

\* documents of direct faces that raise or are degenerate, in any order
FromWarn ==
  \E f \in SeqUpTo({RaisingFace, Degenerate}, MaxWarnFaces) :
     Start(Document(f, <<>>, <<>>, <<>>))

Init == FromMixed(MaxFaces, MaxInserts, MaxPolylines)
InitTwin == FromTwin \/ FromPlacedTriangle \/ FromMixed(1, 1, 1)
InitOrder == FromMixed(MaxFaces, MaxInserts, 1) \/ FromMixed(1, 1, MaxPolylines)
InitWarn == FromWarn \/ FromMixed(1, 1, 1)
InitFaces == FromOneFace \/ FromOneNested \/ FromMixed(MaxFaces, MaxInserts, 1)
InitDedup == FromDedup \/ FromMixed(MaxFaces, MaxInserts, 1)
InitPoly == FromTable \/ FromInterleaved \/ FromMixed(1, 1, MaxPolylines)

Spec == Init /\ [][Next]_vars
SpecFaces == InitFaces /\ [][Next]_vars
SpecDedup == InitDedup /\ [][Next]_vars
SpecPoly == InitPoly /\ [][Next]_vars
SpecWarn == InitWarn /\ [][Next]_vars
SpecOrder == InitOrder /\ [][Next]_vars
SpecTwin == InitTwin /\ [][Next]_vars

----------------------------------------------------------------------------
(* Vocabulary of the properties *)

\* a face is about to be handled by the 3DFACE loop or by the block loop
AtFace ==
  \/ pc = "faces" /\ ent <= Len(doc.faces)
  \/ pc = "nested" /\ sub <= Len(CurrentBlock)

CurrentFace == IF pc = "faces" THEN doc.faces[ent] ELSE CurrentBlock[sub]

\* its present corners, in world coordinates
CurrentCorners ==
  IF pc = "faces" THEN Collect(CurrentFace.vtx)
  ELSE TransformAll(insert_matrix, Collect(CurrentFace.vtx))

\* a sub-record of a polyface mesh is about to be handled by the second loop
AtRecord == pc = "poly_faces" /\ sub <= Len(doc.polylines[ent].records)

CurrentRecords == doc.polylines[ent].records

PolyfaceCount(n) == Cardinality({k \in 1..n : doc.polylines[k].flag = "polyface"})

\* p and q differ by less than the tolerance on every axis
WithinTolerance(p, q) == \A k \in 1..3 : Abs(p[k] - q[k]) < Tolerance

\* the elements of s at the positions in K, in the order of s
RECURSIVE Pick(_, _, _)
Pick(s, K, k) ==
  IF k > Len(s) THEN <<>>
  ELSE (IF k \in K THEN <<s[k]>> ELSE <<>>) \o Pick(s, K, k + 1)

----------------------------------------------------------------------------
(* C1: while a polyface mesh is decoded, the offset that turns its local  *)
(* vertex positions into positions of the vertex list is the length of    *)
(* the vertex list, the place where its own vertices are appended.        *)
C1_OffsetIsBufferLength ==
  pc = "poly_faces" => vertex_offset = Len(all_vertices)

(* C2: the three indices of every triangle of the face list are pairwise  *)
(* distinct.                                                              *)
C2_TrianglesDistinct ==
  \A k \in 1..Len(all_faces) :
     /\ all_faces[k][1] # all_faces[k][2]
     /\ all_faces[k][1] # all_faces[k][3]
     /\ all_faces[k][2] # all_faces[k][3]

(* C3: every triangle, at the step that appends it, has its three indices *)
(* inside the vertex list as it is after that step.                       *)
C3_IndicesInRangeAtAppend ==
  [][\A k \in (Len(all_faces) + 1)..Len(all_faces') :
        \A j \in 1..3 : all_faces'[k][j] \in Range(all_vertices')]_vars

(* C4: no exception of one entity leaves the conversion: the conversion   *)
(* never stops with an uncaught exception of an entity.                   *)
C4_NoEntityAborts ==
  pc # "raised"

(* C5: a direct or block-nested face with u >= 3 unique corners appends  *)
(* exactly these u corners, in order, at s = the length of the vertex     *)
(* list, and exactly the triangle (s,s+1,s+2) when u = 3, the two         *)
(* triangles (s,s+1,s+2), (s,s+2,s+3) in this order when u = 4.           *)
C5_ValidFaceAppends ==
  [][(AtFace /\ ~CurrentFace.raises /\ Len(UniqueVerts(CurrentCorners)) >= 3) =>
       LET u == UniqueVerts(CurrentCorners)
           s == Len(all_vertices)
       IN /\ all_vertices' = all_vertices \o u
          /\ Len(u) \in {3, 4}
          /\ Len(u) = 3 => all_faces' = Append(all_faces, <<s, s + 1, s + 2>>)
          /\ Len(u) = 4 => all_faces' = all_faces \o << <<s, s + 1, s + 2>>,
                                                        <<s, s + 2, s + 3>> >>]_vars

\* a nested quad has been appended behind the three vertices of a direct face
C5_Witness ==
  /\ pc = "nested"
  /\ sub = 2
  /\ Len(all_vertices) = 7
  /\ Len(all_faces) = 3
  /\ all_faces[2] = <<3, 4, 5>>
  /\ all_faces[3] = <<3, 5, 6>>

(* C6: a direct or block-nested face with fewer than 3 present corners,   *)
(* or fewer than 3 unique corners, appends nothing, adds one to the       *)
(* invalid face counter and leaves the valid face counter.                *)
C6_DegenerateFaceCounted ==
  [][(AtFace /\ ~CurrentFace.raises /\ Len(UniqueVerts(CurrentCorners)) < 3) =>
       /\ all_vertices' = all_vertices
       /\ all_faces' = all_faces
       /\ invalid_3dface' = invalid_3dface + 1
       /\ valid_3dface' = valid_3dface]_vars

\* a face of four present corners, fewer than three of them unique, was counted
C6_Witness ==
  /\ pc = "faces"
  /\ ent = 2
  /\ ~doc.faces[1].raises
  /\ Len(Collect(doc.faces[1].vtx)) = 4
  /\ invalid_3dface = 1
  /\ valid_3dface = 0
  /\ all_vertices = <<>>

\* the corner lists the document makes the two loops deduplicate
DedupInputs ==
  {Collect(doc.faces[k].vtx) : k \in {j \in 1..Len(doc.faces) : ~doc.faces[j].raises}}
  \cup UNION {{TransformAll(doc.inserts[i].matrix, Collect(doc.blocks[doc.inserts[i].name][k].vtx)) :
                 k \in {j \in 1..Len(doc.blocks[doc.inserts[i].name]) :
                          ~doc.blocks[doc.inserts[i].name][j].raises}} :
              i \in {j \in 1..Len(doc.inserts) : doc.inserts[j].name \in DOMAIN doc.blocks}}

(* C7: the deduplication of a corner list v returns the corners at a set  *)
(* K of positions, in the order of v, where position 1 is in K, a         *)
(* position is outside K exactly when its corner is within the tolerance  *)
(* (every axis) of the corner at an earlier position of K, and no two     *)
(* corners at positions of K are within the tolerance of each other.      *)
C7_DedupKeepsFirstOccurrences ==
  \A v \in {w \in DedupInputs : Len(w) >= 3} :
     \E K \in SUBSET (1..Len(v)) :
        /\ UniqueVerts(v) = Pick(v, K, 1)
        /\ 1 \in K
        /\ \A j \in 1..Len(v) :
              j \notin K <=> \E i \in K : i < j /\ WithinTolerance(v[i], v[j])
        /\ \A i \in K, j \in K : i # j => ~WithinTolerance(v[i], v[j])

\* the second corner was dropped, and the third, within the tolerance of the
\* dropped one, was kept
C7_Witness ==
  /\ pc = "faces"
  /\ ent = 2
  /\ valid_3dface = 1
  /\ LET v == Collect(doc.faces[1].vtx)
     IN /\ Len(v) = 4
        /\ all_vertices = <<v[1], v[3], v[4]>>
        /\ WithinTolerance(v[2], v[3])

\* the first face of the document had four present corners and was valid
AfterFirstFace ==
  /\ pc = "faces"
  /\ ent = 2
  /\ ~doc.faces[1].raises
  /\ Len(Collect(doc.faces[1].vtx)) = 4
  /\ valid_3dface = 1

\* the distance of the first two corners of the first face on axis k
Distance(k) == Abs(doc.faces[1].vtx[1][k] - doc.faces[1].vtx[2][k])

SecondCornerKept == Len(all_vertices) >= 2 /\ all_vertices[2] = doc.faces[1].vtx[2]

(* C8: in units of 0.0001, two corners 9 apart on every axis are merged,  *)
(* two corners 11 apart on some axis are not, and two corners exactly 10  *)
(* apart on some axis are not.                                            *)
C8_ToleranceBoundary ==
  AfterFirstFace =>
    /\ (\A k \in 1..3 : Distance(k) = 9) => ~SecondCornerKept /\ Len(all_vertices) = 3
    /\ (\E k \in 1..3 : Distance(k) = 11) => SecondCornerKept
    /\ (\E k \in 1..3 : Distance(k) = 10) => SecondCornerKept

\* two corners exactly 10 apart on one axis and 9 apart on the others were kept
C8_Witness ==
  /\ AfterFirstFace
  /\ Distance(1) = 10
  /\ Distance(2) = 9
  /\ Distance(3) = 9
  /\ Len(all_vertices) = 4

\* the indices of a face record that resolve when index k stands for the
\* vertex of ordinal |k|-1 of a local table of n vertices
OrdinalIndices(idx, n, offset) ==
  LET kept == SelectSeq(idx, LAMBDA x : x # 0 /\ Abs(x) <= n)
  IN [j \in 1..Len(kept) |-> offset + Abs(kept[j]) - 1]

\* the indices of a face record that resolve when index k stands for the
\* sub-record at position |k|-1 of the record list, if that one has a location;
\* its vertex has as ordinal the number of sub-records with a location before it
PositionIndices(idx, records, offset) ==
  LET kept == SelectSeq(idx, LAMBDA x : /\ x # 0
                                        /\ Abs(x) <= Len(records)
                                        /\ HasLocation(records[Abs(x)]))
  IN [j \in 1..Len(kept) |->
        offset + Cardinality({m \in 1..(Abs(kept[j]) - 1) : HasLocation(records[m])})]

\* every sub-record with a location comes before every sub-record without one
TableFirst(records) ==
  \A m \in 1..Len(records), n \in 1..Len(records) :
     (HasLocation(records[n]) /\ m < n) => HasLocation(records[m])

(* C9, as claimed: for any order of the sub-records, the face record      *)
(* handled by a step of the second loop appends the triangles of the      *)
(* indices k that are non-zero with |k| <= number of collected vertices,  *)
(* each standing for the vertex of ordinal |k|-1 of the local table.      *)
C9_IndexIsTableOrdinal ==
  [][(AtRecord /\ HasIndices(CurrentRecords[sub])) =>
       all_faces' = all_faces \o
         PolyTriangles(OrdinalIndices(CurrentRecords[sub].idx, Len(vertices), vertex_offset))]_vars

(* C9, amended: a non-zero index k stands for the vertex collected from   *)
(* the sub-record at position |k|-1 of the entity's sub-record list, and  *)
(* is dropped when that sub-record has no location or does not exist;     *)
(* index 0 never resolves.  When the sub-records with a location come     *)
(* first, that vertex is the one of ordinal |k|-1 of the local table.     *)
C9_IndexIsRecordPosition ==
  [][(AtRecord /\ HasIndices(CurrentRecords[sub])) =>
       /\ all_faces' = all_faces \o
            PolyTriangles(PositionIndices(CurrentRecords[sub].idx, CurrentRecords, vertex_offset))
       /\ TableFirst(CurrentRecords) =>
            all_faces' = all_faces \o
              PolyTriangles(OrdinalIndices(CurrentRecords[sub].idx, Len(vertices), vertex_offset))]_vars

\* a face record ahead of the vertices it names has produced a triangle
C9_Witness ==
  /\ pc = "poly_faces"
  /\ sub = 2
  /\ CurrentRecords[1].kind = "face"
  /\ Len(vertices) = 3
  /\ all_faces = << <<0, 1, 2>> >>

(* C10: after each polyface-flagged entity exactly one of the two         *)
(* polyface counters has grown by one: the valid and the invalid counter  *)
(* add up to the number of polyface-flagged entities handled so far.      *)
C10_PolyfaceCountedOnce ==
  pc \in {"polylines", "exported", "empty_error"} =>
    valid_polyline + invalid_polyline =
      PolyfaceCount(IF pc = "polylines" THEN ent - 1 ELSE Len(doc.polylines))

\* the number of faces among the first n direct faces whose handling raises
RaisingCount(n) == Cardinality({k \in 1..n : doc.faces[k].raises})

(* C11: in the 3DFACE loop the number of warnings printed is the number   *)
(* of raising faces handled so far, up to five: each of the first five    *)
(* raising faces prints one, whatever degenerate faces come between.      *)
C11_FirstFiveRaisesWarned ==
  pc = "faces" =>
    warned_3dface = (IF RaisingCount(ent - 1) <= 5 THEN RaisingCount(ent - 1) ELSE 5)

\* the INSERT loop stands at an entity whose name is readable and names no block
AtUndefinedBlock ==
  /\ pc = "inserts"
  /\ ent <= Len(doc.inserts)
  /\ doc.inserts[ent].bad # "name"
  /\ doc.inserts[ent].name \notin DOMAIN doc.blocks

(* C12: an INSERT whose block name has no definition is skipped: the       *)
(* vertex list, the face list, the four counters and the polyface offset   *)
(* keep their values and the loop goes on with the next INSERT.            *)
C12_UndefinedBlockSkipped ==
  [][AtUndefinedBlock =>
       /\ all_vertices' = all_vertices
       /\ all_faces' = all_faces
       /\ valid_3dface' = valid_3dface
       /\ invalid_3dface' = invalid_3dface
       /\ valid_polyline' = valid_polyline
       /\ invalid_polyline' = invalid_polyline
       /\ vertex_offset' = vertex_offset
       /\ pc' = "inserts"
       /\ ent' = ent + 1]_vars

\* an undefined block was skipped after the direct faces had filled the lists
C12_Witness ==
  /\ pc = "inserts"
  /\ ent = 2
  /\ doc.inserts[1].bad # "name"
  /\ doc.inserts[1].name \notin DOMAIN doc.blocks
  /\ Len(all_vertices) > 0
  /\ invalid_3dface > 0

\* the three loops are over and the empty check is next
LoopsOver == pc = "polylines" /\ ent > Len(doc.polylines)

\* the only entity of the modelspace is a 3DFACE that raises on corner access
OnlyRaisingFace ==
  /\ Len(doc.faces) = 1
  /\ doc.faces[1].raises
  /\ doc.inserts = <<>>
  /\ doc.polylines = <<>>

(* C13: after the three loops the conversion ends in the empty-geometry    *)
(* error exactly when the vertex list or the face list is empty, and       *)
(* hands the lists to the exporter otherwise; the lists are left as they   *)
(* were.  A document of one raising 3DFACE ends in the error with          *)
(* invalid_3dface = 1 and valid_3dface = 0.                                *)
C13_EmptyGeometryError ==
  /\ [][LoopsOver =>
          /\ pc' = "empty_error" <=> (Len(all_vertices) = 0 \/ Len(all_faces) = 0)
          /\ pc' = "exported" <=> (Len(all_vertices) > 0 /\ Len(all_faces) > 0)
          /\ all_vertices' = all_vertices
          /\ all_faces' = all_faces]_vars
  /\ [][pc' = "exported" => LoopsOver]_vars
  /\ [](OnlyRaisingFace /\ pc \in {"empty_error", "exported"} =>
          pc = "empty_error" /\ invalid_3dface = 1 /\ valid_3dface = 0)

\* the error was raised with triangles in the face list and no vertex
C13_Witness ==
  /\ pc = "empty_error"
  /\ Len(all_faces) > 0
  /\ Len(all_vertices) = 0

\* the document is a twin: one direct face, and one block of one face placed
\* by a pure translation that moves the block's face onto the direct face
TwinDoc ==
  /\ Len(doc.faces) = 1
  /\ Len(doc.inserts) = 1
  /\ doc.inserts[1].bad = "none"
  /\ doc.inserts[1].name \in DOMAIN doc.blocks
  /\ doc.inserts[1].matrix.scale = <<1, 1, 1>>
  /\ Len(doc.blocks[doc.inserts[1].name]) = 1
  /\ doc.faces[1] = Shifted(doc.blocks[doc.inserts[1].name][1], doc.inserts[1].matrix.move)

\* both faces of a twin document have been handled
TwinDone == TwinDoc /\ pc = "nested" /\ sub = 2

\* the document of one block of one triangle placed at (100, 200, 0)
PlacedTriangleDoc ==
  /\ doc.faces = <<>>
  /\ doc.polylines = <<>>
  /\ doc.inserts = <<Insert("B", "none", Placement)>>
  /\ doc.blocks["B"] = <<Tri>>

(* C14: a face nested in a block placed by a pure translation gives what   *)
(* the direct face with the moved corners gives.  In a twin document the   *)
(* nested face appends the vertices the direct face appended, and the      *)
(* triangles the direct face appended moved to the nested face's start     *)
(* index, and it raises the counter the direct face raised.  The triangle  *)
(* placed at (100, 200, 0) yields its three moved vertices and the         *)
(* triangle (0, 1, 2).                                                     *)
C14_TranslatedBlockAsDirect ==
  /\ TwinDone =>
       LET n == Len(all_vertices) \div 2
           m == Len(all_faces) \div 2
       IN /\ Len(all_vertices) = 2 * n
          /\ Len(all_faces) = 2 * m
          /\ \A k \in 1..n : all_vertices[n + k] = all_vertices[k]
          /\ \A k \in 1..m :
               all_faces[m + k] = [j \in 1..3 |-> all_faces[k][j] + n]
          /\ \/ valid_3dface = 2 /\ invalid_3dface = 0 /\ n >= 3 /\ m >= 1
             \/ valid_3dface = 0 /\ invalid_3dface = 2 /\ n = 0 /\ m = 0
  /\ PlacedTriangleDoc /\ pc = "exported" =>
       /\ all_vertices = << <<1000000, 2000000, 0>>, <<1010000, 2000000, 0>>,
                            <<1000000, 2010000, 0>> >>
       /\ all_faces = << <<0, 1, 2>> >>
       /\ valid_3dface = 1
       /\ invalid_3dface = 0

\* a twin document of four corners, two of them within the tolerance, moved
\* by a translation that is not zero
C14_Witness ==
  /\ TwinDone
  /\ doc.inserts[1].matrix.move # <<0, 0, 0>>
  /\ Len(Collect(doc.faces[1].vtx)) = 4
  /\ Len(all_vertices) = 6
  /\ Len(all_faces) = 2

\* the files a list of results is about
InputFiles(rs) == {rs[k].input_file : k \in 1..Len(rs)}

\* the files batch_convert submits to the pool
Submitted ==
  {f \in 1..Len(found) : ~(skip_existing /\ found[f].has_stl)}

(* C15: whatever the number of workers and the order of completion, the    *)
(* batch makes at most one call of convert_single_file per file, is never  *)
(* stopped by a conversion that raises, and returns one result per         *)
(* submitted file: the successful list holds the files whose conversion    *)
(* returned, the failed list those whose conversion raised.                *)
C15_BatchPartitionsFiles ==
  /\ \A f \in 1..Len(found) : attempts[f] <= 1
  /\ bpc \in {"start", "pool"} => ENABLED NextBatch
  /\ bpc \in {"start", "pool", "done"}
  /\ bpc = "done" =>
       /\ \A f \in 1..Len(found) : attempts[f] = (IF f \in Submitted THEN 1 ELSE 0)
       /\ Len(returned[1]) + Len(returned[2]) = Cardinality(Submitted)
       /\ InputFiles(returned[1]) = {f \in Submitted : ~found[f].raises}
       /\ InputFiles(returned[2]) = {f \in Submitted : found[f].raises}
       /\ \A k \in 1..Len(returned[1]) : returned[1][k].success
       /\ \A k \in 1..Len(returned[2]) : ~returned[2][k].success

\* a batch of three files on two workers returned: the first file raised, and
\* a later file completed before it
C15_Witness ==
  /\ bpc = "done"
  /\ workers = 2
  /\ Cardinality(Submitted) = 3
  /\ Len(returned[1]) = 2
  /\ Len(returned[2]) = 1
  /\ results[1].input_file # 1
  /\ found[1].raises

\* the loop a position of the conversion belongs to: 1 the 3DFACE loop, 2 the
\* INSERT loop, 3 the POLYLINE loop, 4 after the loops
Phase(p) ==
  CASE p = "faces" -> 1
    [] p \in {"inserts", "nested"} -> 2
    [] p \in {"polylines", "poly_faces"} -> 3
    [] OTHER -> 4

RECURSIVE SumSeq(_)
SumSeq(s) == IF s = <<>> THEN 0 ELSE Head(s) + SumSeq(Tail(s))

\* the number of vertices the face f placed by m appends: its unique corners
\* when it is valid, none otherwise
Yield(f, m) ==
  IF f.raises THEN 0
  ELSE LET corners == TransformAll(m, Collect(f.vtx))
           u == Len(UniqueVerts(corners))
       IN IF Len(corners) >= 3 /\ u >= 3 THEN u ELSE 0

\* the INSERT entities whose block is defined
Resolved == {k \in 1..Len(doc.inserts) : doc.inserts[k].name \in DOMAIN doc.blocks}

\* the number of vertices of the direct faces, and of the nested faces
DirectYield ==
  SumSeq([k \in 1..Len(doc.faces) |-> Yield(doc.faces[k], IdentityMatrix)])
BlockYield(k) ==
  LET block == doc.blocks[doc.inserts[k].name]
  IN SumSeq([j \in 1..Len(block) |-> Yield(block[j], doc.inserts[k].matrix)])
NestedYield ==
  SumSeq([k \in 1..Len(doc.inserts) |-> IF k \in Resolved THEN BlockYield(k) ELSE 0])

\* the corners of the direct faces, of the nested faces as placed, and the
\* coordinates of the polyface records
DirectPoints ==
  {doc.faces[k].vtx[j] : k \in 1..Len(doc.faces), j \in 1..4}
PlacedCorners(f, m) ==
  {Transform(m, f.vtx[c]) : c \in {q \in 1..4 : f.vtx[q] # NoPt}}
BlockPoints(k) ==
  LET block == doc.blocks[doc.inserts[k].name]
  IN UNION {PlacedCorners(block[j], doc.inserts[k].matrix) : j \in 1..Len(block)}
NestedPoints == UNION {BlockPoints(k) : k \in Resolved}
PolyPoints ==
  UNION {{doc.polylines[k].records[j].loc : j \in 1..Len(doc.polylines[k].records)} :
         k \in 1..Len(doc.polylines)}

(* C16: the three loops run one after the other: the conversion leaves the *)
(* 3DFACE loop only when every direct face is done and enters the INSERT   *)
(* loop; it leaves the INSERT loop normally only when every INSERT is done *)
(* and enters the POLYLINE loop; it never goes back, and the vertex list   *)
(* only grows at its end.  So in the POLYLINE loop and after it the vertex *)
(* list holds the vertices of the direct faces, then those of the nested   *)
(* faces, then those of the polyface meshes.                               *)
C16_LoopsInOrder ==
  /\ [][/\ Phase(pc') >= Phase(pc)
        /\ (pc = "faces" /\ pc' # "faces") =>
              ent > Len(doc.faces) /\ pc' = "inserts"
        /\ (Phase(pc) = 2 /\ Phase(pc') # 2 /\ pc' # "raised") =>
              pc = "inserts" /\ ent > Len(doc.inserts) /\ pc' = "polylines"
        /\ Len(all_vertices') >= Len(all_vertices)
        /\ SubSeq(all_vertices', 1, Len(all_vertices)) = all_vertices]_vars
  /\ [](pc \in {"polylines", "poly_faces", "empty_error", "exported"} =>
          /\ Len(all_vertices) >= DirectYield + NestedYield
          /\ \A k \in 1..Len(all_vertices) :
               /\ k <= DirectYield => all_vertices[k] \in DirectPoints
               /\ (k > DirectYield /\ k <= DirectYield + NestedYield) =>
                     all_vertices[k] \in NestedPoints
               /\ k > DirectYield + NestedYield => all_vertices[k] \in PolyPoints)

\* the conversion ended with vertices of the three kinds, the nested ones
\* placed away from the others
C16_Witness ==
  /\ pc = "exported"
  /\ DirectYield > 0
  /\ NestedYield > 0
  /\ Len(all_vertices) > DirectYield + NestedYield
  /\ all_vertices[DirectYield + 1] \notin DirectPoints \cup PolyPoints

\* the positions of the sub-records of polyface ent that expose a coordinate
CoordRecords ==
  {k \in 1..Len(CurrentRecords) : CurrentRecords[k].kind \in {"coord", "both"}}

\* every sub-record of polyface ent has been decoded without an exception
AllRecordsDecoded == pc = "poly_faces" /\ sub > Len(CurrentRecords)

(* C17: while the sub-records of a polyface mesh are decoded the offset    *)
(* and the vertex list keep their values; once all of them are decoded     *)
(* without an exception the offset advances, in one step, by the number of *)
(* coordinate records of the entity, whatever its face records, and the    *)
(* vertex list grows by the same number, the coordinates in record order.  *)
C17_OffsetAdvancesOnce ==
  [][/\ (pc = "polylines" /\ pc' = "poly_faces") =>
           vertex_offset' = vertex_offset /\ all_vertices' = all_vertices
     /\ AtRecord =>
           vertex_offset' = vertex_offset /\ all_vertices' = all_vertices
     /\ AllRecordsDecoded =>
           /\ vertex_offset' = vertex_offset + Cardinality(CoordRecords)
           /\ Len(all_vertices') = Len(all_vertices) + Cardinality(CoordRecords)
           /\ SubSeq(all_vertices', 1, Len(all_vertices)) = all_vertices
           /\ SubSeq(all_vertices', Len(all_vertices) + 1, Len(all_vertices')) =
                [k \in 1..Cardinality(CoordRecords) |->
                   Pick(CurrentRecords, CoordRecords, 1)[k].loc]
           /\ all_faces' = all_faces
           /\ pc' = "polylines"]_vars

\* a polyface mesh of two coordinate records and two face records was
\* decoded: the offset stands at 2
C17_Witness ==
  /\ pc = "polylines"
  /\ ent = 2
  /\ invalid_polyline = 0
  /\ vertex_offset = 2
  /\ Len(all_vertices) = 2
  /\ Len(doc.polylines[1].records) = 4
  /\ Cardinality({k \in 1..4 : doc.polylines[1].records[k].kind = "face"}) = 2

\* the modelspace holds POLYLINE entities only, and every polyface mesh
\* handled so far has raised an exception
OnlyRaisedPolyfaces ==
  /\ pc = "polylines"
  /\ doc.faces = <<>>
  /\ doc.inserts = <<>>
  /\ invalid_polyline = PolyfaceCount(ent - 1)

(* C18: a polyface mesh whose decoding raises leaves the vertex list, the  *)
(* face list and the offset as they were before the entity: when every     *)
(* polyface mesh handled so far has raised, in a document without other    *)
(* entities, the two lists are empty and the offset is 0.                  *)
C18_RaisingPolyfaceLeavesNothing ==
  OnlyRaisedPolyfaces =>
    all_vertices = <<>> /\ all_faces = <<>> /\ vertex_offset = 0

(* C19: when the lists are handed to the mesh exporter, every index of     *)
(* every triangle is a position of the vertex list.                        *)
C19_ExportedIndicesInRange ==
  pc = "exported" =>
    \A k \in 1..Len(all_faces) : \A j \in 1..3 :
       all_faces[k][j] \in Range(all_vertices)

\* the number of direct faces and of faces nested in resolved INSERT entities
FaceTotal ==
  Len(doc.faces)
  + SumSeq([k \in 1..Len(doc.inserts) |->
              IF k \in Resolved THEN Len(doc.blocks[doc.inserts[k].name]) ELSE 0])

\* the number of those faces that are valid: three or more unique corners
ValidTotal ==
  Cardinality({k \in 1..Len(doc.faces) : Yield(doc.faces[k], IdentityMatrix) > 0})
  + SumSeq([k \in 1..Len(doc.inserts) |->
              IF k \in Resolved
              THEN Cardinality({j \in 1..Len(doc.blocks[doc.inserts[k].name]) :
                     Yield(doc.blocks[doc.inserts[k].name][j], doc.inserts[k].matrix) > 0})
              ELSE 0])

\* the 3DFACE loop and the INSERT loop are over, the POLYLINE loop has not begun
FaceLoopsOver == pc = "polylines" /\ ent = 1

(* C20: every direct face and every nested face raises exactly one of      *)
(* valid_3dface and invalid_3dface by one, whether it is valid, degenerate *)
(* or raises.  After the 3DFACE loop and the INSERT loop the two counters  *)
(* add up to the number of direct faces plus the faces of the resolved     *)
(* blocks, the vertex list holds the unique corners of the valid faces,    *)
(* and the number of triangles lies between valid_3dface and twice it.     *)
C20_FaceCountersAddUp ==
  /\ [][AtFace =>
          \/ valid_3dface' = valid_3dface + 1 /\ invalid_3dface' = invalid_3dface
          \/ valid_3dface' = valid_3dface /\ invalid_3dface' = invalid_3dface + 1]_vars
  /\ [][~AtFace =>
          valid_3dface' = valid_3dface /\ invalid_3dface' = invalid_3dface]_vars
  /\ [](FaceLoopsOver =>
          /\ valid_3dface + invalid_3dface = FaceTotal
          /\ valid_3dface = ValidTotal
          /\ Len(all_vertices) = DirectYield + NestedYield
          /\ valid_3dface <= Len(all_faces)
          /\ Len(all_faces) <= 2 * valid_3dface)

\* two direct faces, one of them raising, and a block of a quad, a raising
\* face and a degenerate face have been handled
C20_Witness ==
  /\ FaceLoopsOver
  /\ Len(doc.faces) = 2
  /\ valid_3dface = 2
  /\ invalid_3dface = 3
  /\ Len(all_vertices) = 7
  /\ Len(all_faces) = 3

====
